---- MODULE Spec2Model ----
(***************************************************************************)
(* Stock synchronisation scripts of warde-scra.  The repository holds five *)
(* near-duplicate variants of one pipeline (catalog GET -> per product:    *)
(* scrape supplier page -> PUT stock):                                     *)
(*   "axiosRegex"  src/sync.js 1-121          axios + cheerio, /(\d+)/     *)
(*   "category"    src/sync.js 123-249        fetch + puppeteer, category  *)
(*   "rendered"    src/unnamed/part_000       node-fetch + puppeteer       *)
(*   "paginated"   src/unnamed/part_001 1-129 fetch + puppeteer, paginated *)
(*   "axiosStrip"  src/unnamed/part_001 131-242 axios + cheerio, \D strip  *)
(* sync.js and part_001 hold two scripts each and do not parse as stored:  *)
(* a run of one of these files ends in ParseError.                         *)
(* Text is modelled as sequences of one-character strings, so that trim,   *)
(* regular-expression matching and parseInt are computed, not assumed.     *)
(***************************************************************************)
EXTENDS Integers, Sequences, FiniteSets, TLC

VARIABLES variant, env, catalog, pc, pageNo, all, list, idx, stock,
          browser, exitCode, log, doc, out

vars == <<variant, env, catalog, pc, pageNo, all, list, idx, stock,
          browser, exitCode, log, doc, out>>

Scripts == {"axiosRegex", "category", "rendered", "paginated", "axiosStrip"}

(* The two files that hold two scripts each, one after the other: sync.js
   holds axiosRegex then category, part_001 holds paginated then axiosStrip.
   A run is either of one script or of one of these files as it is stored. *)
StoredFiles == {"sync.js", "part_001"}
Variants == Scripts \cup StoredFiles

(* ------------------------------ bounds -------------------------------- *)
MaxProducts == 3
MaxPages == 2
MaxValLen == 3

(* --------------------------- JavaScript values ------------------------ *)
(* Text is a sequence of characters; undefined and null are kept apart from
   every text, and parseInt's NaN from every number it can return. *)
Undefined == <<"undefined">>
Null == <<"null">>
NaN == -1

(* truthiness of a value that is a string, undefined or null *)
Truthy(v) == v # Undefined /\ v # Null /\ v # <<>>

(* ------------------------------ text ---------------------------------- *)
Phrase == <<"A","v","a","i","l","a","b","l","e"," ","S","t","o","c","k">>
WordAvailable == <<"a","v","a","i","l","a","b","l","e">>
WordStock == <<"s","t","o","c","k">>

DigitChars == {"0","1","2","3","4","5","6","7","8","9"}
IsDigit(c) == c \in DigitChars
(* White space of JavaScript: what \s matches and what trim() and parseInt
   strip.  The characters a TLA+ string cannot hold are named by code point. *)
WhiteSpace ==
  {" ", "\t", "\n", "\r", "\f", "U+000B", "U+00A0", "U+FEFF", "U+2028", "U+2029",
   "U+1680", "U+2000", "U+2001", "U+2002", "U+2003", "U+2004", "U+2005", "U+2006",
   "U+2007", "U+2008", "U+2009", "U+200A", "U+202F", "U+205F", "U+3000"}
IsSpace(c) == c \in WhiteSpace

DigitVal(c) ==
  CASE c = "0" -> 0 [] c = "1" -> 1 [] c = "2" -> 2 [] c = "3" -> 3
    [] c = "4" -> 4 [] c = "5" -> 5 [] c = "6" -> 6 [] c = "7" -> 7
    [] c = "8" -> 8 [] c = "9" -> 9

Lower(c) ==
  CASE c = "A" -> "a" [] c = "B" -> "b" [] c = "C" -> "c" [] c = "E" -> "e"
    [] c = "I" -> "i" [] c = "K" -> "k" [] c = "L" -> "l" [] c = "M" -> "m"
    [] c = "O" -> "o" [] c = "S" -> "s" [] c = "T" -> "t" [] c = "V" -> "v"
    [] OTHER -> c

LowerSeq(s) == [i \in 1..Len(s) |-> Lower(s[i])]

Drop(s, n) == SubSeq(s, n + 1, Len(s))

(* String.prototype.trim *)
RECURSIVE TrimLeft(_)
TrimLeft(s) == IF s # <<>> /\ IsSpace(Head(s)) THEN TrimLeft(Tail(s)) ELSE s
RECURSIVE TrimRight(_)
TrimRight(s) ==
  IF s # <<>> /\ IsSpace(s[Len(s)]) THEN TrimRight(SubSeq(s, 1, Len(s) - 1)) ELSE s
Trim(s) == TrimRight(TrimLeft(s))

StartsWith(s, p) == Len(p) <= Len(s) /\ SubSeq(s, 1, Len(p)) = p

(* String.prototype.includes / XPath contains() *)
Includes(s, p) == \E i \in 0..Len(s) : StartsWith(Drop(s, i), p)

(* s.replace(/\D/g, '') *)
StripNonDigits(s) == SelectSeq(s, IsDigit)

(* the longest prefix of s made of characters satisfying the class *)
RECURSIVE DigitPrefix(_)
DigitPrefix(s) ==
  IF s # <<>> /\ IsDigit(Head(s)) THEN <<Head(s)>> \o DigitPrefix(Tail(s)) ELSE <<>>
RECURSIVE SkipSpaces(_)
SkipSpaces(s) == IF s # <<>> /\ IsSpace(Head(s)) THEN SkipSpaces(Tail(s)) ELSE s
RECURSIVE SkipBlanks(_)
SkipBlanks(s) == IF s # <<>> /\ Head(s) = " " THEN SkipBlanks(Tail(s)) ELSE s

RECURSIVE DigitsValue(_)
DigitsValue(d) ==
  IF d = <<>> THEN 0 ELSE 10 * DigitsValue(SubSeq(d, 1, Len(d) - 1)) + DigitVal(d[Len(d)])

(* parseInt(s, 10): leading white space skipped, then the leading digits *)
ParseInt(s) ==
  LET d == DigitPrefix(SkipSpaces(s))
  IN IF d = <<>> THEN NaN ELSE DigitsValue(d)

(* s.match(/(\d+)/): the leftmost maximal run of digits, or null *)
RECURSIVE FirstDigitRun(_)
FirstDigitRun(s) ==
  IF s = <<>> THEN Null
  ELSE IF IsDigit(Head(s)) THEN DigitPrefix(s)
  ELSE FirstDigitRun(Tail(s))

(* /Available\s*Stock/i anchored at the head of s: the rest after the match,
   or Null when s does not start with a match *)
AfterLabel(s) ==
  LET l == LowerSeq(s)
  IN IF ~StartsWith(l, WordAvailable) THEN Null
     ELSE LET r == SkipSpaces(Drop(l, Len(WordAvailable)))
          IN IF StartsWith(r, WordStock) THEN Drop(r, Len(WordStock)) ELSE Null

(* /Available\s*Stock/i.test(s) *)
LabelTest(s) == \E i \in 0..Len(s) : AfterLabel(Drop(s, i)) # Null

(* the capture of /Available\s*Stock\s*:? *(\d+)/i anchored at the head of s *)
LabelNumberAt(s) ==
  LET a == AfterLabel(s)
  IN IF a = Null THEN Null
     ELSE LET b == SkipSpaces(a)
              c == IF b # <<>> /\ Head(b) = ":" THEN Tail(b) ELSE b
              d == DigitPrefix(SkipBlanks(c))
          IN IF d = <<>> THEN Null ELSE d

(* s.match(/Available\s*Stock\s*:? *(\d+)/i): capture of the leftmost match *)
RECURSIVE LabelNumber(_)
LabelNumber(s) ==
  IF LabelNumberAt(s) # Null THEN LabelNumberAt(s)
  ELSE IF s = <<>> THEN Null
  ELSE LabelNumber(Tail(s))

(* --------------------------- supplier page ---------------------------- *)
(* A supplier page is html > body > li.flex > children; a child is          *)
(* [cls, text]: cls "title" is a span.title, cls "value" a span.value,      *)
(* "other" any other inline element; text is the child's only text node.    *)
Classes == {"title", "value", "other"}

RECURSIVE ConcatTexts(_)
ConcatTexts(p) == IF p = <<>> THEN <<>> ELSE Head(p).text \o ConcatTexts(Tail(p))

(* text of the document: cheerio .text() and textContent of html, body, li *)
PageText(p) == ConcatTexts(p)

(* text of the next element sibling of child i, Undefined when there is none *)
NextText(p, i) == IF i + 1 <= Len(p) THEN p[i + 1].text ELSE Undefined

(* $("*"): html, head (empty, followed by body), body, li.flex, then the
   children, in document order, each with its .text() and the .text() of its
   next sibling *)
DocElements(p) ==
  << [text |-> PageText(p), next |-> Undefined],
     [text |-> <<>>, next |-> PageText(p)],
     [text |-> PageText(p), next |-> Undefined],
     [text |-> PageText(p), next |-> Undefined] >>
  \o [i \in 1..Len(p) |-> [text |-> p[i].text, next |-> NextText(p, i)]]

(* innerText is the rendered text.  The children are inline boxes on one
   line: every run of collapsible white space, also across two children,
   renders as one space, and none renders at the start or the end of the line. *)
CssWhiteSpace == {" ", "\t", "\n", "\r"}

(* what text s renders as when the line so far ends with a space (or is
   empty): atSpace *)
RECURSIVE Collapse(_, _)
Collapse(s, atSpace) ==
  IF s = <<>> THEN <<>>
  ELSE IF Head(s) \in CssWhiteSpace
    THEN (IF atSpace THEN <<>> ELSE <<" ">>) \o Collapse(Tail(s), TRUE)
  ELSE <<Head(s)>> \o Collapse(Tail(s), FALSE)

(* whether the line ends with a space (or is empty) after the first n children *)
RECURSIVE AtSpaceAfter(_, _)
AtSpaceAfter(p, n) ==
  IF n = 0 THEN TRUE
  ELSE LET piece == Collapse(p[n].text, AtSpaceAfter(p, n - 1))
       IN IF piece = <<>> THEN AtSpaceAfter(p, n - 1) ELSE piece[Len(piece)] = " "

(* the rendered text of child i, before the line's last space is dropped *)
Piece(p, i) == Collapse(p[i].text, AtSpaceAfter(p, i - 1))

DropLastSpace(t) ==
  IF t # <<>> /\ t[Len(t)] = " " THEN SubSeq(t, 1, Len(t) - 1) ELSE t

(* child.innerText *)
ChildInnerText(p, i) ==
  IF \A j \in (i + 1)..Len(p) : Piece(p, j) = <<>>
  THEN DropLastSpace(Piece(p, i)) ELSE Piece(p, i)

(* innerText of html, body and li.flex *)
RECURSIVE ConcatPieces(_, _)
ConcatPieces(p, i) == IF i > Len(p) THEN <<>> ELSE Piece(p, i) \o ConcatPieces(p, i + 1)
PageInnerText(p) == DropLastSpace(ConcatPieces(p, 1))

(* [el.innerText for el of document.querySelectorAll('*')]: html, head, body,
   li.flex, then the children *)
RenderedTexts(p) ==
  <<PageInnerText(p), <<>>, PageInnerText(p), PageInnerText(p)>>
  \o [i \in 1..Len(p) |-> ChildInnerText(p, i)]

Thrown(e) == [kind |-> "throw", val |-> 0, err |-> e]
Returned(n) == [kind |-> "ok", val |-> n, err |-> ""]
ReturnedNull == [kind |-> "null", val |-> 0, err |-> ""]

(* titleEl.next('span.value').text() over the matched title elements *)
RECURSIVE NextValueText(_, _, _)
NextValueText(p, titles, i) ==
  IF i > Len(p) THEN <<>>
  ELSE (IF i \in titles /\ i + 1 <= Len(p) /\ p[i + 1].cls = "value"
          THEN p[i + 1].text ELSE <<>>)
       \o NextValueText(p, titles, i + 1)

(* scrapeStock of the axios/cheerio variant with the first-match regex *)
ScrapeStockRegex(p) ==
  LET titleEl == {i \in 1..Len(p) : p[i].cls = "title" /\ Trim(p[i].text) = Phrase}
      valueText == Trim(NextValueText(p, titleEl, 1))
      match == FirstDigitRun(valueText)
  IN IF titleEl = {} THEN Thrown("StockNotFound")
     ELSE IF match = Null THEN Thrown("StockUnparsable")
     ELSE Returned(ParseInt(match))

(* scrapeStock of the two chrome-aws-lambda variants (XPath + nextElementSibling) *)
ScrapeStockXPath(p) ==
  LET hits == {i \in 1..Len(p) : Includes(p[i].text, Phrase)}
      label == CHOOSE i \in hits : \A j \in hits : i <= j
      text == NextText(p, label)
      qty == ParseInt(StripNonDigits(text))
  IN IF hits = {} THEN Thrown("StockNotFound")
     ELSE IF ~Truthy(text) THEN Thrown("StockTextNotFound")
     ELSE IF qty = NaN THEN Thrown("StockUnparsable")
     ELSE Returned(qty)

(* extractStock of the bundled-puppeteer variant *)
ExtractStock(p) ==
  LET texts == RenderedTexts(p)
      found == \E k \in 1..Len(texts) : LabelTest(texts[k])
      hits == {k \in 1..Len(texts) : LabelNumber(texts[k]) # Null}
      first == CHOOSE k \in hits : \A j \in hits : k <= j
  IN IF ~found THEN ReturnedNull
     ELSE IF hits = {} THEN ReturnedNull
     ELSE Returned(ParseInt(LabelNumber(texts[first])))

(* scrapeStock of the axios/cheerio variant that walks $("*") *)
ScrapeStockEach(p) ==
  LET els == DocElements(p)
      hits == {k \in 1..Len(els) : Includes(Trim(els[k].text), Phrase)}
      first == CHOOSE k \in hits : \A j \in hits : k <= j
      qtyText == IF hits = {} THEN Undefined
                 ELSE IF els[first].next = Undefined THEN <<>>
                 ELSE Trim(els[first].next)
      n == ParseInt(StripNonDigits(qtyText))
  IN IF ~Truthy(qtyText) THEN Thrown("StockNotFound")
     ELSE IF n = NaN THEN Thrown("StockUnparsable")
     ELSE Returned(n)

(* the Scraper of each variant, applied to the content the page serves *)
Scrape(v, p) ==
  CASE v = "axiosRegex" -> ScrapeStockRegex(p)
    [] v = "category"   -> ScrapeStockXPath(p)
    [] v = "paginated"  -> ScrapeStockXPath(p)
    [] v = "rendered"   -> ExtractStock(p)
    [] v = "axiosStrip" -> ScrapeStockEach(p)

(* ------------------------ configuration and catalog ------------------- *)
(* 'warde_url': the key the bundled-puppeteer variant writes out, and the
   default of WARD_URL_META_KEY in the others *)
DefaultMetaKey == <<"warde_url">>
OtherMetaKey == <<"other">>

(* const { ..., WARD_URL_META_KEY = 'warde_url' } = process.env: the default
   applies when the variable is not set, not when it is set to '' *)
WARD_URL_META_KEY(v, e) ==
  IF v = "rendered" THEN DefaultMetaKey
  ELSE IF e.metaKey = Undefined THEN DefaultMetaKey
  ELSE e.metaKey
perPage == 100

EnvSet == <<"x">>
EnvValues == {Undefined, <<>>, EnvSet}

(* mutant of EnvMissing: the test forgets the consumer secret *)
EnvMissingNoSecret(v, e) ==
  \/ ~Truthy(e.url)
  \/ ~Truthy(e.key)
  \/ (v = "category" /\ ~Truthy(e.category))

(* the falsy test on the required environment variables *)
EnvMissing(v, e) ==
  \/ ~Truthy(e.url)
  \/ ~Truthy(e.key)
  \/ ~Truthy(e.secret)
  \/ (v = "category" /\ ~Truthy(e.category))

(* metadata a catalog record can carry *)
UrlText == <<"u">>
Metas ==
  { <<>>,
    <<[key |-> DefaultMetaKey, value |-> UrlText]>>,
    <<[key |-> DefaultMetaKey, value |-> <<>>],
      [key |-> DefaultMetaKey, value |-> UrlText]>>,
    <<[key |-> DefaultMetaKey, value |-> <<" ">>]>>,
    <<[key |-> OtherMetaKey, value |-> UrlText]>> }

SeqsUpTo(S, n) == UNION {[1..k -> S] : k \in 0..n}

(* a catalog of n records: record i has id i; the first records carry the
   given metadata, the others none *)
MakeCatalog(ms, n) ==
  [i \in 1..n |-> [id |-> i, meta_data |-> IF i <= Len(ms) THEN ms[i] ELSE <<>>]]

Min(a, b) == IF a < b THEN a ELSE b

(* the platform's answer to GET /products?per_page=100&page=n *)
ServerPage(cat, n) == SubSeq(cat, (n - 1) * perPage + 1, Min(n * perPage, Len(cat)))

(* meta_data.find(m => m.key === key): index of the first entry with the
   key, 0 when find returns undefined *)
Find(md, key) ==
  LET hits == {k \in 1..Len(md) : md[k].key = key}
  IN IF hits = {} THEN 0 ELSE CHOOSE k \in hits : \A j \in hits : k <= j

(* meta?.value of the entry find returned *)
FoundValue(md, key) == IF Find(md, key) = 0 THEN Undefined ELSE md[Find(md, key)].value

(* meta_data.some(m => m.key === key && m.value) *)
HasUrlMeta(p, key) ==
  \E k \in 1..Len(p.meta_data) :
     p.meta_data[k].key = key /\ Truthy(p.meta_data[k].value)

(* products.filter(p => p.meta_data.some(...)) *)
FilterFabrics(products, key) ==
  LET Kept(p) == HasUrlMeta(p, key) IN SelectSeq(products, Kept)

(* loadProductsFromWoo: map to {id, wardeUrl: meta.value.trim()} or null, then
   filter(Boolean) *)
HasFirstUrlMeta(p) == Truthy(FoundValue(p.meta_data, DefaultMetaKey))
MapWardeUrl(products) ==
  LET kept == SelectSeq(products, HasFirstUrlMeta)
  IN [i \in 1..Len(kept) |->
        [id |-> kept[i].id, wardeUrl |-> Trim(FoundValue(kept[i].meta_data, DefaultMetaKey))]]

(* the list the per-item loop iterates *)
LoopList(v, e, products) ==
  CASE v = "category" -> products
    [] v = "rendered" -> MapWardeUrl(products)
    [] OTHER          -> FilterFabrics(products, WARD_URL_META_KEY(v, e))

(* the URL handed to the Scraper for an item of the loop's list *)
ItemUrl(v, e, item) ==
  IF v = "rendered" THEN item.wardeUrl
  ELSE FoundValue(item.meta_data, WARD_URL_META_KEY(v, e))

(* mutant of LoaderDone: the loop stops on the first page that is not full *)
LoaderDoneShortPage(batch) == Len(batch) < perPage

(* while (true) { ...; if (!batch.length) break; ... } *)
LoaderDone(batch) == Len(batch) = 0

(* ------------------------------ Writer -------------------------------- *)
StockStatus(q) == IF q > 0 THEN "instock" ELSE "outofstock"

(* body of updateStock in the four variants that always send both fields *)
UpdateBodyPlain(s) ==
  [keys |-> {"stock_quantity", "stock_status"}, manage_stock |-> FALSE,
   stock_quantity |-> s.val, stock_status |-> StockStatus(s.val)]

(* body of updateStock in the bundled-puppeteer variant *)
UpdateBodyManaged(s) ==
  IF s.kind = "ok"
  THEN [keys |-> {"manage_stock", "stock_quantity", "stock_status"},
        manage_stock |-> TRUE, stock_quantity |-> s.val,
        stock_status |-> StockStatus(s.val)]
  ELSE [keys |-> {"manage_stock"}, manage_stock |-> TRUE,
        stock_quantity |-> 0, stock_status |-> ""]

UpdateBody(v, s) == IF v = "rendered" THEN UpdateBodyManaged(s) ELSE UpdateBodyPlain(s)

NoBody == [keys |-> {}, manage_stock |-> FALSE, stock_quantity |-> 0, stock_status |-> ""]

(* ------------------------- what the network serves -------------------- *)
El(c, t) == [cls |-> c, text |-> t]

(* contents a supplier URL can serve during a run: label with a quantity in
   the sibling value, no label at all, label without digits, label and
   quantity in one element *)
DriverPages ==
  << <<El("title", Phrase), El("value", <<"1", "0", " ", "m">>)>>,
     <<El("other", <<"m">>)>>,
     <<El("title", Phrase), El("value", <<"m">>)>>,
     <<El("other", Phrase \o <<":", " ", "7">>)>> >>

(* ------------------------------ run log ------------------------------- *)
(* One entry per network call, browser call and console.error of an item:
   op "get" (catalog page i), "launch", "newPage", "close", "scrapeStart" /
   "scrapeEnd" (item i: page.goto or axios.get of the supplier URL, and the
   Scraper's outcome on content pg, 0 for a navigation failure), "putStart" /
   "putEnd", "skip", "error" (per-item console.error), "fatal". *)
Ev(op, i, id, ok) ==
  [op |-> op, i |-> i, id |-> id, ok |-> ok, url |-> <<>>, pg |-> 0,
   res |-> ReturnedNull, body |-> NoBody]

(* mutant of IdxAfterFailure: a failed item is tried again *)
IdxAfterFailureRetry(i) == i

(* position of the loop after an item failed: the catch block falls through
   to the next iteration *)
IdxAfterFailure(i) == i + 1

(* mutant of PcAfterPutSent: updateStock is not awaited *)
PcAfterPutSentNoAwait == "loop"

(* where the driver waits after it sent the PUT: await updateStock(...) *)
PcAfterPutSent == "putting"

Exit(code) == pc' = "exited" /\ exitCode' = code

(* what Node.js does with a rejection nobody handles: in throw mode, the
   default since version 15, it ends the process with code 1; in warn mode,
   the default before and --unhandled-rejections=warn since, it prints a
   warning and goes on *)
UnhandledRejectionModes == {"throw", "warn"}

(* the async main function rejected with nobody catching, the browser being
   in state b: in warn mode the process ends with code 0 once nothing keeps
   the event loop busy, and a launched browser that nothing closes keeps it
   busy for good *)
UnhandledRejection(b) ==
  \E mode \in UnhandledRejectionModes :
     IF mode = "throw" THEN Exit(1)
     ELSE IF b = "open" THEN pc' = "hung" /\ UNCHANGED exitCode
     ELSE Exit(0)

(* ------------------------------ Init ---------------------------------- *)
(* the variables a variant reads; at most one of them is left unset or empty *)
Required(v) ==
  IF v = "category" THEN {"url", "key", "secret", "category"} ELSE {"url", "key", "secret"}
(* WARD_URL_META_KEY is optional: not set, set to '', set to another key *)
MetaKeyValues(v) ==
  IF v = "rendered" THEN {Undefined} ELSE {Undefined, <<>>, OtherMetaKey}
EnvConfigs(v) ==
  {e \in [url : EnvValues, key : EnvValues, secret : EnvValues,
          category : IF v = "category" THEN EnvValues ELSE {Undefined},
          metaKey : MetaKeyValues(v)] :
     Cardinality({f \in Required(v) : e[f] # EnvSet}) <= 1}

InitRest ==
  /\ pc = "start"
  /\ pageNo = 1
  /\ all = <<>>
  /\ list = <<>>
  /\ idx = 1
  /\ stock = ReturnedNull
  /\ browser = "none"
  /\ exitCode = -1
  /\ log = <<>>
  /\ doc = <<>>
  /\ out = ReturnedNull

Init ==
  /\ variant \in Variants
  /\ env \in EnvConfigs(variant)
  /\ \E ms \in SeqsUpTo(Metas, MaxProducts) : catalog = MakeCatalog(ms, Len(ms))
  /\ InitRest

(* ------------------------------ Loader -------------------------------- *)
(* the driver's code between the Loader's return and its next await *)
AfterLoaded(products) ==
  LET l == LoopList(variant, env, products)
  IN /\ all' = products
     /\ list' = l
     /\ idx' = 1
     /\ CASE variant \in {"axiosRegex", "axiosStrip"} ->
               IF Len(l) = 0 THEN Exit(0) ELSE pc' = "loop" /\ UNCHANGED exitCode
          [] variant \in {"paginated", "category"} ->
               IF Len(l) = 0 THEN Exit(0) ELSE pc' = "launch" /\ UNCHANGED exitCode
          [] variant = "rendered" -> pc' = "launch" /\ UNCHANGED exitCode

(* node compiles the whole file before it runs a statement of it: a file
   that holds two scripts declares the same const names twice and ends with a
   SyntaxError, exit code 1, nothing requested and nothing logged by the script *)
ParseError ==
  /\ pc = "start"
  /\ variant \in StoredFiles
  /\ Exit(1)
  /\ UNCHANGED <<variant, env, catalog, pageNo, all, list, idx, stock, browser, log, doc, out>>

(* top of the script: validate the environment *)
ValidateEnv ==
  /\ pc = "start"
  /\ variant \in Scripts
  /\ IF EnvMissing(variant, env) THEN Exit(1) ELSE pc' = "load" /\ UNCHANGED exitCode
  /\ UNCHANGED <<variant, env, catalog, pageNo, all, list, idx, stock, browser, log, doc, out>>

(* one turn of fetchAllProducts' loop, axios: a non-2xx answer makes axios.get
   reject, which the driver's outer catch turns into exit(1) *)
FetchAllProductsAxios ==
  /\ pc = "load"
  /\ variant \in {"axiosRegex", "axiosStrip"}
  /\ \E ok \in BOOLEAN :
       /\ log' = Append(log, Ev("get", pageNo, 0, ok))
       /\ IF ~ok
          THEN Exit(1) /\ UNCHANGED <<pageNo, all, list, idx>>
          ELSE LET batch == ServerPage(catalog, pageNo)
               IN IF LoaderDone(batch)
                  THEN AfterLoaded(all) /\ UNCHANGED pageNo
                  ELSE /\ all' = all \o batch
                       /\ pageNo' = pageNo + 1
                       /\ UNCHANGED <<pc, exitCode, list, idx>>
  /\ UNCHANGED <<variant, env, catalog, stock, browser, doc, out>>

(* one turn of fetchAllProducts' loop, fetch: !res.ok throws; the driver's
   catch logs, finally finds no browser, and the script ends normally *)
FetchAllProductsFetch ==
  /\ pc = "load"
  /\ variant = "paginated"
  /\ \E ok \in BOOLEAN :
       /\ log' = Append(log, Ev("get", pageNo, 0, ok))
       /\ IF ~ok
          THEN Exit(0) /\ UNCHANGED <<pageNo, all, list, idx>>
          ELSE LET batch == ServerPage(catalog, pageNo)
               IN IF LoaderDone(batch)
                  THEN AfterLoaded(all) /\ UNCHANGED pageNo
                  ELSE /\ all' = all \o batch
                       /\ pageNo' = pageNo + 1
                       /\ UNCHANGED <<pc, exitCode, list, idx>>
  /\ UNCHANGED <<variant, env, catalog, stock, browser, doc, out>>

(* fetchAllFabrics: one request for the category's first 100 records *)
FetchAllFabrics ==
  /\ pc = "load"
  /\ variant = "category"
  /\ \E ok \in BOOLEAN :
       /\ log' = Append(log, Ev("get", 1, 0, ok))
       /\ IF ~ok
          THEN Exit(0) /\ UNCHANGED <<all, list, idx>>
          ELSE AfterLoaded(ServerPage(catalog, 1))
  /\ UNCHANGED <<variant, env, catalog, pageNo, stock, browser, doc, out>>

(* loadProductsFromWoo: one request; a failure rejects the main function,
   which has no catch *)
LoadProductsFromWoo ==
  /\ pc = "load"
  /\ variant = "rendered"
  /\ \E ok \in BOOLEAN :
       /\ log' = Append(log, Ev("get", 1, 0, ok))
       /\ IF ~ok
          THEN UnhandledRejection(browser) /\ UNCHANGED <<all, list, idx>>
          ELSE AfterLoaded(ServerPage(catalog, 1))
  /\ UNCHANGED <<variant, env, catalog, pageNo, stock, browser, doc, out>>

(* ------------------------------ browser ------------------------------- *)
Rendered == {"category", "rendered", "paginated"}

(* puppeteer.launch: in the chrome-aws-lambda variants a rejection is caught,
   finally finds browser unset and the script ends; in the bundled variant
   nothing catches it and no browser is there to keep the process alive *)
Launch ==
  /\ pc = "launch"
  /\ variant \in Rendered
  /\ \E ok \in BOOLEAN :
       /\ log' = Append(log, Ev("launch", 0, 0, ok))
       /\ IF ok
          THEN browser' = "open" /\ pc' = "newPage" /\ UNCHANGED exitCode
          ELSE /\ UNCHANGED browser
               /\ IF variant = "rendered"
                  THEN UnhandledRejection(browser)
                  ELSE Exit(0)
  /\ UNCHANGED <<variant, env, catalog, pageNo, all, list, idx, stock, doc, out>>

(* browser.newPage: a rejection reaches catch and finally (browser.close) in
   the chrome-aws-lambda variants; in the bundled variant nothing catches it
   and nothing closes the browser *)
NewPage ==
  /\ pc = "newPage"
  /\ \E ok \in BOOLEAN :
       /\ log' = Append(log, Ev("newPage", 0, 0, ok))
       /\ IF ok THEN pc' = "loop" /\ UNCHANGED exitCode
          ELSE IF variant = "rendered"
            THEN UnhandledRejection(browser)
          ELSE pc' = "closing" /\ UNCHANGED exitCode
  /\ UNCHANGED <<variant, env, catalog, pageNo, all, list, idx, stock, browser, doc, out>>

(* await browser.close(), in finally or as the main function's last
   statement, then the script ends.  When it rejects nothing handles the
   rejection, and the browser may or may not be gone. *)
Close ==
  /\ pc = "closing"
  /\ \E ok \in BOOLEAN :
       /\ log' = Append(log, Ev("close", 0, 0, ok))
       /\ IF ok
          THEN browser' = "closed" /\ Exit(0)
          ELSE \E b \in {"open", "closed"} : browser' = b /\ UnhandledRejection(b)
  /\ UNCHANGED <<variant, env, catalog, pageNo, all, list, idx, stock, doc, out>>

(* --------------------------- per-item loop ---------------------------- *)
(* for (...) is exhausted: the axios variants end, the others go on to
   browser.close *)
LoopDone ==
  /\ pc = "loop"
  /\ idx > Len(list)
  /\ IF variant \in Rendered THEN pc' = "closing" /\ UNCHANGED exitCode ELSE Exit(0)
  /\ UNCHANGED <<variant, env, catalog, pageNo, all, list, idx, stock, browser, log, doc, out>>

(* category variant: if (!meta?.value) { warn; continue; } *)
SkipItem ==
  /\ pc = "loop"
  /\ idx <= Len(list)
  /\ variant = "category"
  /\ ~Truthy(ItemUrl(variant, env, list[idx]))
  /\ log' = Append(log, Ev("skip", idx, list[idx].id, TRUE))
  /\ idx' = idx + 1
  /\ UNCHANGED <<variant, env, catalog, pc, pageNo, all, list, stock, browser, exitCode, doc, out>>

(* the item's try block starts: page.goto(url) / axios.get(url) is issued *)
StartScrape ==
  /\ pc = "loop"
  /\ idx <= Len(list)
  /\ variant = "category" => Truthy(ItemUrl(variant, env, list[idx]))
  /\ log' = Append(log, [Ev("scrapeStart", idx, list[idx].id, TRUE)
                           EXCEPT !.url = ItemUrl(variant, env, list[idx])])
  /\ pc' = "scraping"
  /\ UNCHANGED <<variant, env, catalog, pageNo, all, list, idx, stock, browser, exitCode, doc, out>>

(* the item's catch block: console.error, then the next iteration *)
ItemFailed(entry) ==
  /\ log' = log \o <<entry, Ev("error", idx, list[idx].id, FALSE)>>
  /\ idx' = IdxAfterFailure(idx)
  /\ pc' = "loop"

(* a URL nothing can be fetched from: undefined, empty or white space only *)
BlankUrl(u) == ~Truthy(u) \/ Trim(u) = <<>>

(* the supplier answers: navigation fails (always for a blank URL), or
   content pg is served and the variant's Scraper runs on it; a value it
   returns goes to updateStock, whose PUT is issued *)
ScrapeResponse ==
  /\ pc = "scraping"
  /\ \E pg \in 0..Len(DriverPages) :
       /\ BlankUrl(ItemUrl(variant, env, list[idx])) => pg = 0
       /\ LET end == [Ev("scrapeEnd", idx, list[idx].id, FALSE) EXCEPT !.pg = pg]
              res == Scrape(variant, DriverPages[pg])
          IN IF pg = 0
             THEN ItemFailed([end EXCEPT !.res = Thrown("NavigationError")])
                  /\ UNCHANGED stock
             ELSE IF res.kind = "throw"
             THEN ItemFailed([end EXCEPT !.res = res]) /\ UNCHANGED stock
             ELSE /\ stock' = res
                  /\ log' = log \o
                       << [end EXCEPT !.res = res, !.ok = TRUE],
                          [Ev("putStart", idx, list[idx].id, TRUE)
                             EXCEPT !.body = UpdateBody(variant, res)] >>
                  /\ pc' = PcAfterPutSent
                  /\ UNCHANGED idx
  /\ UNCHANGED <<variant, env, catalog, pageNo, all, list, browser, exitCode, doc, out>>

(* the platform answers the PUT: a non-2xx answer throws into the catch block *)
PutResponse ==
  /\ pc = "putting"
  /\ \E ok \in BOOLEAN :
       IF ok
       THEN /\ log' = Append(log, Ev("putEnd", idx, list[idx].id, TRUE))
            /\ idx' = idx + 1
            /\ pc' = "loop"
       ELSE ItemFailed(Ev("putEnd", idx, list[idx].id, FALSE))
  /\ UNCHANGED <<variant, env, catalog, pageNo, all, list, stock, browser, exitCode, doc, out>>

Next ==
  \/ ParseError
  \/ ValidateEnv
  \/ FetchAllProductsAxios
  \/ FetchAllProductsFetch
  \/ FetchAllFabrics
  \/ LoadProductsFromWoo
  \/ Launch
  \/ NewPage
  \/ Close
  \/ LoopDone
  \/ SkipItem
  \/ StartScrape
  \/ ScrapeResponse
  \/ PutResponse

Spec == Init /\ [][Next]_vars

(* ------------- the Loader on catalogs of several pages ---------------- *)
(* sizes of the last page: empty, one record, one record short of full *)
PartialSizes == {0, 1, perPage - 1}
PagedSizes == {perPage * (n - 1) + k : n \in 1..MaxPages, k \in PartialSizes}

InitLoader ==
  /\ variant \in Variants
  /\ env = [url |-> EnvSet, key |-> EnvSet, secret |-> EnvSet,
            category |-> IF variant = "category" THEN EnvSet ELSE Undefined,
            metaKey |-> Undefined]
  /\ \E ms \in SeqsUpTo(Metas, 1), n \in PagedSizes :
        n >= Len(ms) /\ catalog = MakeCatalog(ms, n)
  /\ InitRest

SpecLoader == InitLoader /\ [][Next]_vars

(* ------------- the Scrapers on generated page contents ---------------- *)
ValueAlphabet == {"1", "0", " ", "m"}
ValueTexts == SeqsUpTo(ValueAlphabet, MaxValLen)
PlainLabels ==
  {Phrase, Phrase \o <<":">>, <<" ">> \o Phrase, LowerSeq(Phrase), <<"S", "t", "o", "c", "k">>}
Separators == {<<>>, <<":">>, <<":", " ">>, <<":", "\n">>}

(* a label element alone or followed by a value element *)
SiblingPages ==
  {<<El(c, l)>> : c \in {"title", "other"}, l \in PlainLabels}
  \cup {<<El(c, l), El(d, t)>> :
          c \in {"title", "other"}, l \in PlainLabels, d \in {"value", "other"}, t \in ValueTexts}

(* label and value in the text of one element *)
InlinePages ==
  {<<El(c, Phrase \o sep \o t)>> : c \in {"title", "other"}, sep \in Separators, t \in ValueTexts}

GenPages == SiblingPages \cup InlinePages

InitScrape ==
  /\ variant \in Scripts
  /\ doc \in GenPages
  /\ pc = "scrape"
  /\ out = ReturnedNull
  /\ env = [url |-> EnvSet, key |-> EnvSet, secret |-> EnvSet, category |-> Undefined,
            metaKey |-> Undefined]
  /\ catalog = <<>>
  /\ pageNo = 1 /\ all = <<>> /\ list = <<>> /\ idx = 1 /\ stock = ReturnedNull
  /\ browser = "none" /\ exitCode = -1 /\ log = <<>>

Scraped(result) ==
  /\ out' = result
  /\ pc' = "scraped"
  /\ UNCHANGED <<variant, env, catalog, pageNo, all, list, idx, stock, browser, exitCode, log, doc>>

ApplyScrapeStockRegex ==
  pc = "scrape" /\ variant = "axiosRegex" /\ Scraped(ScrapeStockRegex(doc))
ApplyScrapeStockXPath ==
  pc = "scrape" /\ variant \in {"category", "paginated"} /\ Scraped(ScrapeStockXPath(doc))
ApplyExtractStock ==
  pc = "scrape" /\ variant = "rendered" /\ Scraped(ExtractStock(doc))
ApplyScrapeStockEach ==
  pc = "scrape" /\ variant = "axiosStrip" /\ Scraped(ScrapeStockEach(doc))

NextScrape ==
  \/ ApplyScrapeStockRegex
  \/ ApplyScrapeStockXPath
  \/ ApplyExtractStock
  \/ ApplyScrapeStockEach

SpecScrape == InitScrape /\ [][NextScrape]_vars

(* ====================== properties of the run ========================= *)
Ops(op) == {k \in 1..Len(log) : log[k].op = op}
ItemOps(op, i) == {k \in Ops(op) : log[k].i = i}
NetworkCalls == Ops("get") \cup Ops("launch") \cup Ops("scrapeStart") \cup Ops("putStart")
(* the run is over: the process has ended, or it idles for good after an
   unhandled rejection with the browser still there *)
RunOver == pc \in {"exited", "hung"}
CloseRejected == \E k \in Ops("close") : ~log[k].ok
RequiredUnset == ~Truthy(env.url) \/ ~Truthy(env.key) \/ ~Truthy(env.secret)

(* C1: when the API base URL, the consumer key or the consumer secret is
   unset at startup, the run makes no network call and launches no browser,
   and the process exits with code 1. *)
C1_MissingConfigExitsWithoutNetwork ==
  RequiredUnset =>
    /\ NetworkCalls = {}
    /\ browser = "none"
    /\ pc \in {"start", "exited"}
    /\ pc = "exited" => exitCode = 1

C1_Witness ==
  /\ pc = "exited"
  /\ exitCode = 1
  /\ env.secret = Undefined
  /\ Truthy(env.url) /\ Truthy(env.key)
  /\ Len(catalog) > 0

(* C2: a catalog GET that fails is fatal: no supplier page is scraped, no PUT
   is issued, and the process ends with a non-zero exit code. *)
C2_CatalogFailureIsFatal ==
  (pc = "exited" /\ \E k \in Ops("get") : ~log[k].ok) =>
    /\ Ops("scrapeStart") = {}
    /\ Ops("putStart") = {}
    /\ exitCode # 0

(* the phrase occurs in the page's text, with digits somewhere after it *)
HasPhrase(p) == Includes(PageText(p), Phrase)
HasPhraseAndQuantity(p) ==
  \E n \in 0..Len(PageText(p)) :
     /\ StartsWith(Drop(PageText(p), n), Phrase)
     /\ FirstDigitRun(Drop(PageText(p), n + Len(Phrase))) # Null

(* the run of digits that follows the phrase: at the head of the value
   element after a label element, or right after the phrase (and an optional
   colon and blanks) in the label's own text; Null when there is none *)
DigitsAfterPhrase(p) ==
  IF Len(p) = 2 /\ Trim(p[1].text) = Phrase /\ DigitPrefix(TrimLeft(p[2].text)) # <<>>
    THEN DigitPrefix(TrimLeft(p[2].text))
  ELSE IF Len(p) = 1 /\ StartsWith(p[1].text, Phrase)
    THEN LabelNumberAt(p[1].text)
  ELSE Null

(* the page has the markup the variant's Scraper reads *)
MarkupRead(v, p) ==
  CASE v = "axiosRegex" -> Len(p) = 2 /\ p[1].cls = "title" /\ p[2].cls = "value"
    [] v = "rendered"   -> TRUE
    [] OTHER            -> Len(p) = 2

(* C3: a product whose supplier page lacks the phrase gets no PUT and an
   error line; a PUT is issued only for a page that holds the phrase and a
   quantity, and by the end of the run for every page that holds them in the
   markup the variant reads; the process exits 0 (browser.close, which comes
   after the loop, not having rejected). *)
C3_UpdatesExactlyPagesWithStock ==
  \A k \in Ops("scrapeEnd") :
     log[k].pg # 0 =>
       LET i == log[k].i
           p == DriverPages[log[k].pg]
       IN /\ ~HasPhrase(p) => (ItemOps("putStart", i) = {} /\ ItemOps("error", i) # {})
          /\ ItemOps("putStart", i) # {} => HasPhraseAndQuantity(p)
          /\ (pc = "exited" /\ ~CloseRejected) => exitCode = 0
          /\ RunOver =>
               ((MarkupRead(variant, p) /\ DigitsAfterPhrase(p) # Null)
                  => ItemOps("putStart", i) # {})

ScrapeStarts(i) == Cardinality(ItemOps("scrapeStart", i))

(* C4 as stated: in every run that got past the Loader, each product of the
   Loader's list has had its scrape started exactly once when the run ends. *)
C4_EveryListedProductScrapedOnce ==
  pc = "exited" => \A i \in 1..Len(list) : ScrapeStarts(i) = 1

LoopEntered == variant \in Rendered => \E k \in Ops("newPage") : log[k].ok
SkippedByLoop(i) == variant = "category" /\ ~Truthy(ItemUrl(variant, env, list[i]))

(* C4 amended: a per-item failure neither aborts the loop nor is retried: no
   product's scrape is ever started twice, and in every run that entered the
   per-item loop each product of the list has had its scrape started exactly
   once when the run ends, except the products the category variant's loop
   skips for want of a URL, whose scrape is never started. *)
C4_LoopScrapesEachItemOnce ==
  /\ \A i \in 1..Len(list) : ScrapeStarts(i) <= 1
  /\ (RunOver /\ LoopEntered) =>
       \A i \in 1..Len(list) :
          ScrapeStarts(i) = IF SkippedByLoop(i) THEN 0 ELSE 1

C4_Witness ==
  /\ pc = "exited"
  /\ Len(list) >= 2
  /\ ItemOps("error", 1) # {}
  /\ \E k \in ItemOps("putEnd", 1) : ~log[k].ok
  /\ ScrapeStarts(2) = 1

(* C5: the browser is launched at most once and, once launched,
   browser.close is called exactly once before the run is over, on every
   exit path, and leaves the browser closed unless the call itself rejects. *)
C5_BrowserClosedOnEveryPath ==
  /\ Cardinality({k \in Ops("launch") : log[k].ok}) <= 1
  /\ (RunOver /\ \E k \in Ops("launch") : log[k].ok) =>
       /\ Cardinality(Ops("close")) = 1
       /\ ~CloseRejected => browser = "closed"

(* ------------------------- C6: pagination ----------------------------- *)
Paginating == variant \in {"axiosRegex", "axiosStrip", "paginated"}
LoaderReturned == pc \notin {"start", "load"} /\ \A k \in Ops("get") : log[k].ok
PagesN == (Len(catalog) \div perPage) + 1
LastPageK == Len(catalog) % perPage
Gets == Cardinality(Ops("get"))

(* C6 as stated: for a catalog of N pages, all of size 100 but a last one of
   size K < 100, fetchAllProducts returns the 100*(N-1)+K records in page
   order and issues exactly N GET requests. *)
C6_ExactlyNRequests ==
  (Paginating /\ LoaderReturned) => (all = catalog /\ Gets = PagesN)

(* C6 amended: fetchAllProducts returns the 100*(N-1)+K records in page order
   and stops on the first empty page: it issues N GET requests when K = 0 and
   N+1 when K > 0, the partial page being followed by one more request. *)
C6_RequestsUntilEmptyPage ==
  (Paginating /\ LoaderReturned) =>
    /\ all = catalog
    /\ Len(all) = perPage * (PagesN - 1) + LastPageK
    /\ Gets = IF LastPageK = 0 THEN PagesN ELSE PagesN + 1
    /\ \A k \in Ops("get") : log[k].i = k

C6_Witness ==
  /\ Paginating /\ LoaderReturned
  /\ LastPageK > 0
  /\ PagesN > 1
  /\ Gets = PagesN + 1
  /\ all = catalog

(* C7: every PUT body sets manage_stock=true; with a quantity q it also
   carries stock_quantity = q and stock_status = instock iff q > 0, and
   without a quantity it carries neither field. *)
C7_BodySetsManageStock ==
  \A k \in Ops("putStart") :
     LET b == log[k].body
         r == log[k - 1].res
     IN /\ "manage_stock" \in b.keys /\ b.manage_stock
        /\ r.kind = "ok" =>
             /\ {"stock_quantity", "stock_status"} \subseteq b.keys
             /\ b.stock_quantity = r.val
             /\ b.stock_status = (IF r.val > 0 THEN "instock" ELSE "outofstock")
        /\ r.kind = "null" => b.keys = {"manage_stock"}

(* ------------------------- C8: the Scraper ---------------------------- *)
(* C8: when the phrase is followed by a run of digits d, possibly followed by
   more text holding other digits, the Scraper returns exactly d. *)
C8_ReturnsFirstDigitRun ==
  (pc = "scraped" /\ MarkupRead(variant, doc) /\ DigitsAfterPhrase(doc) # Null) =>
    out = Returned(ParseInt(DigitsAfterPhrase(doc)))

(* C9: products are processed in the Loader's order, one at a time: a scrape
   starts only after every earlier started item has finished (its PUT answered,
   or its scrape failed), items start in increasing list position, and a PUT
   is issued only after the same product's scrape has returned. *)
ItemFinishedWithin(i, from, to) ==
  \E m \in (from + 1)..(to - 1) :
     /\ log[m].i = i
     /\ \/ log[m].op = "putEnd"
        \/ log[m].op = "scrapeEnd" /\ ~log[m].ok
C9_OneItemAtATimeInOrder ==
  /\ \A k \in Ops("scrapeStart") :
        /\ log[k].id = list[log[k].i].id
        /\ \A j \in Ops("scrapeStart") :
              j < k => (log[j].i < log[k].i /\ ItemFinishedWithin(log[j].i, j, k))
  /\ \A k \in Ops("putStart") :
        \E m \in 1..(k - 1) :
           /\ log[m].op = "scrapeEnd" /\ log[m].ok /\ log[m].i = log[k].i
           /\ \E s \in 1..(m - 1) : log[s].op = "scrapeStart" /\ log[s].i = log[k].i

C9_Witness ==
  /\ \E k \in ItemOps("putEnd", 1) : \E j \in ItemOps("scrapeStart", 2) : k < j
  /\ ItemOps("putStart", 2) # {}

(* C10: the URL handed to the Scraper is always a non-empty value of a
   metadata entry of the product that has the configured key. *)
C10_ScraperGetsNonEmptyUrl ==
  \A k \in Ops("scrapeStart") :
     /\ Truthy(log[k].url)
     /\ \E m \in 1..Len(catalog[log[k].id].meta_data) :
           /\ catalog[log[k].id].meta_data[m].key = WARD_URL_META_KEY(variant, env)
           /\ catalog[log[k].id].meta_data[m].value = log[k].url

====
